---- MODULE Spec2Model ----
(***************************************************************************)
(* Slide extraction of video2notes: the frame scan of                      *)
(* scripts/extract-slides.py (extract_unique_slides / _extract_slides_impl)*)
(* followed by main()'s exact-text pass (deduplicate_slides_by_ocr) and    *)
(* manifest write.                                                         *)
(*                                                                         *)
(* The video is an input: the picture shown at a frame index is drawn when *)
(* the frame is first read, and the pictures of the open group's member    *)
(* frames are remembered (group_pics) so that the on-demand re-read of the *)
(* middle frame returns the frame that was read the first time.            *)
(*                                                                         *)
(* Five families of videos are scanned: free videos (any picture at any    *)
(* frame, every frame readable again), the re-display scenario (a slide, a *)
(* transition, the slide again; with and without the speaker and subtitle  *)
(* masks), closing credits (a slide followed by lists of names), an        *)
(* animation (a slide that changes in small steps), and the schedule       *)
(* family (two slides, under several values of fps, start_seconds,         *)
(* end_seconds and frame_rate). The capture position (cap_pos) is kept     *)
(* apart from frame_number, and the frames read and the collaborators      *)
(* called are logged in calls.                                             *)
(*                                                                         *)
(* Spec02 is the scan of the earlier variant, 02-extract-slides.py, which  *)
(* buffers the frames of the open group instead of re-reading one.         *)
(* SpecBoth runs the later variant and then the earlier one on the same    *)
(* video (the pair family, whose frames are remembered in video) and keeps *)
(* what the first scan left in baseline. SpecLive is the scan of the       *)
(* schedule and animation families under the fairness of a running script. *)
(* SpecPass is the exact-text pass on any list of slides.                  *)
(***************************************************************************)
EXTENDS Integers, Sequences, FiniteSets, TLC

VARIABLES
    source,                   \* which family of videos is being scanned
    frame_count,              \* cap.get(CAP_PROP_FRAME_COUNT)
    masks_roi,                \* the mask regions configured (roi_json: speaker, subtitle)
    fps,                      \* cap.get(cv2.CAP_PROP_FPS)
    start_seconds,
    end_seconds,              \* NoEnd when no end time is supplied
    frame_rate,               \* one frame is sampled every frame_rate seconds
    cap_pos,                  \* CAP_PROP_POS_FRAMES: the frame the next cap.read() returns
    calls,                    \* the frames read and the collaborators called, in order
    pc,                       \* position in main() / extract_unique_slides
    frame_number,
    end_frame,
    unique_slides,            \* the slides collected, imagehash being the fingerprint
    slide_hash_index,
    last_slide_hash,
    current_hash,
    group_started,
    first_timestamp_of_group,
    group_frame_numbers,
    group_pics,               \* the pictures at group_frame_numbers (the video's content there)
    speaker_names,
    names_text,
    group_id,
    slides_buffer,            \* 02-extract-slides.py only: the frames of the open group
    images,                   \* save_folder: group_id -> picture written as slide_<group_id>.png
    names_file,               \* save_folder/speaker_names.txt: <<>> (absent) or <<text>>
    manifest,                 \* save_folder/slides.json: <<>> (absent) or <<list>>
    is_opened,                \* cap.isOpened()
    result,                   \* the list returned by extract_unique_slides (imagehash a string)
    final_slides,             \* the list returned by deduplicate_slides_by_ocr
    releases,                 \* number of cap.release() calls
    raised,                   \* an exception escaped extract_unique_slides
    reads,                    \* number of cap.read() calls
    read_failed,              \* some cap.read() returned ret = False
    imwrites,                 \* the group ids of the cv2.imwrite calls, in order
    removed,                  \* the group ids whose image os.remove deleted, in order
    images_before,            \* save_folder's images when the exact-text pass began
    closed,                   \* one record per closed group, in order
    video,                    \* comparison of the variants: the frames of the video shown so far
    baseline                  \* comparison of the variants: what the first scan left

vars == <<source, frame_count, masks_roi, fps, start_seconds, end_seconds, frame_rate,
          cap_pos, calls, pc, frame_number, end_frame, unique_slides,
          slide_hash_index, last_slide_hash, current_hash, group_started,
          first_timestamp_of_group, group_frame_numbers, group_pics,
          speaker_names, names_text, group_id, slides_buffer, images, names_file, manifest,
          is_opened, result, final_slides, releases, raised, reads, read_failed,
          imwrites, removed, images_before, closed, video, baseline>>

-----------------------------------------------------------------------------
(* Bounds *)

MaxFrames == 9        \* frames of a video of the free family
MaxSlides == 3        \* slides of an input list of the exact-text pass
MaxTextLen == 1       \* characters of an ocr_text of such a list
MaxUndecoded == 1     \* re-reads of a middle frame that fail in one scan

-----------------------------------------------------------------------------
(* Program constants and parameters *)

MIN_OCR_TEXT_LENGTH == 10
MAX_OCR_TEXT_FOR_NAME_CHECK == 300
NameThresholdPct == 65           \* analyze_text_for_names(threshold = 0.65)
HashBits == 64                   \* imagehash.phash: 8 x 8 bits
DeadTimeSeconds == 3             \* "Skip next 3 seconds"

similarity_threshold == 10
NoEnd == -1                      \* end_seconds = None

-----------------------------------------------------------------------------
(* Sequences of characters *)

Rep(c, n) == [i \in 1..n |-> c]

RECURSIVE Concat(_)
Concat(ss) == IF ss = <<>> THEN <<>> ELSE Head(ss) \o Concat(Tail(ss))

Whitespace == {" ", "\n", "\t"}

NonSpace(s) == {i \in 1..Len(s) : s[i] \notin Whitespace}

\* str.strip(): without the leading and trailing whitespace
Strip(s) ==
    LET ns == NonSpace(s)
    IN  IF ns = {} THEN <<>>
        ELSE LET first == CHOOSE i \in ns : \A j \in ns : i <= j
                 last == CHOOSE i \in ns : \A j \in ns : j <= i
             IN  SubSeq(s, first, last)

\* str.split(): the maximal runs of non-whitespace characters, in order
WordStarts(s) == {i \in NonSpace(s) : i = 1 \/ s[i - 1] \in Whitespace}
WordEnds(s) == {i \in NonSpace(s) : i = Len(s) \/ s[i + 1] \in Whitespace}

Split(s) ==
    LET starts == WordStarts(s)
        ends == WordEnds(s)
    IN  [k \in 1..Cardinality(starts) |->
            LET first == CHOOSE i \in starts : Cardinality({j \in starts : j < i}) = k - 1
                last == CHOOSE i \in ends : Cardinality({j \in ends : j < i}) = k - 1
            IN  SubSeq(s, first, last)]

\* ' '.join(words)
RECURSIVE JoinSpace(_)
JoinSpace(words) ==
    IF words = <<>> THEN <<>>
    ELSE IF Len(words) = 1 THEN words[1]
    ELSE words[1] \o <<" ">> \o JoinSpace(Tail(words))

\* normalized_text = ' '.join(slide['ocr_text'].strip().split())
NormalizedText(ocr_text) == JoinSpace(Split(Strip(ocr_text)))

-----------------------------------------------------------------------------
(* Pictures: what a frame of the video can show *)

TextA == Rep("a", 5) \o <<" ">> \o Rep("b", 5)
TextC == <<" ">> \o Rep("a", 5) \o <<" ", "\n">> \o Rep("b", 5) \o <<"\n">>
TextB == Rep("b", 12)
TextS == Rep("s", 4)
TextN == Concat(Rep(Rep("n", 4) \o <<"\n">>, 4))
TextN2 == Concat(Rep(Rep("m", 4) \o <<"\n">>, 4))
TextM == Concat(Rep(Rep("n", 4) \o <<"\n">>, 5))

Pictures == {"A", "A2", "B", "C", "S", "N"}
NameLists == {"N", "N2", "M"}         \* closing credits: lists of names
Animation == {"A", "A2", "A3"}        \* one slide changing little by little
TwoSlides == {"A", "B"}
PairPictures == {"A", "A2", "B", "S", "N"}   \* the videos both variants are run on
NotShown == "?"                       \* a frame of such a video no scan has read yet
EndOfStream == "EOF"                  \* a frame cap.read() fails on

\* imagehash.phash of the cropped grayscale slide area: the set of 1 bits
Phash(pic) ==
    CASE pic = "A"  -> {}
      [] pic = "A2" -> 49..54
      [] pic = "A3" -> 49..60
      [] pic = "B"  -> 1..12
      [] pic = "C"  -> 13..24
      [] pic = "S"  -> 25..36
      [] pic = "N"  -> 37..48
      [] pic = "N2" -> (1..6) \cup (13..18)
      [] pic = "M"  -> (7..12) \cup (19..24)

\* pytesseract.image_to_string of the frame
ImageToString(pic) ==
    CASE pic = "A"  -> TextA
      [] pic = "A2" -> TextA
      [] pic = "A3" -> TextA
      [] pic = "B"  -> TextB
      [] pic = "C"  -> TextC
      [] pic = "S"  -> TextS
      [] pic = "N"  -> TextN
      [] pic = "N2" -> TextN2
      [] pic = "M"  -> TextM

\* ImageHash.__sub__: the number of differing bits
HashDiff(h1, h2) == Cardinality((h1 \ h2) \cup (h2 \ h1))

\* No fingerprint yet (last_slide_hash = None)
None == {0}

HexDigits == <<"0", "1", "2", "3", "4", "5", "6", "7",
               "8", "9", "a", "b", "c", "d", "e", "f">>

Bit(h, b) == IF b \in h THEN 1 ELSE 0

\* str(ImageHash): one hexadecimal digit per four bits
HashStr(h) ==
    [k \in 1..(HashBits \div 4) |->
        HexDigits[1 + 8 * Bit(h, 4*k - 3) + 4 * Bit(h, 4*k - 2)
                    + 2 * Bit(h, 4*k - 1) + Bit(h, 4*k)]]

\* The name detector's findings in a text: the names it detects and the
\* number of characters that count for the proportion
DetectedNames(text) ==
    CASE text = TextN  -> [i \in 1..4 |-> Rep("n", 4)]
      [] text = TextN2 -> [i \in 1..4 |-> Rep("m", 4)]
      [] text = TextM  -> [i \in 1..5 |-> Rep("n", 4)]
      [] OTHER -> <<>>

RECURSIVE SumLen(_)
SumLen(ss) == IF ss = <<>> THEN 0 ELSE Len(Head(ss)) + SumLen(Tail(ss))

NonWhitespaceChars(text) ==
    Cardinality({i \in 1..Len(text) : text[i] \notin Whitespace \cup {",", ".", "<", ">"}})

\* analyze_text_for_names(text): (is_mostly_names, names)
AnalyzeTextForNames(text) ==
    LET names == DetectedNames(text)
        name_chars == SumLen(names)
        non_ws == NonWhitespaceChars(text)
    IN  [is_mostly_names |-> IF non_ws > 0
                             THEN name_chars * 100 >= NameThresholdPct * non_ws
                             ELSE FALSE,
         names |-> names]

-----------------------------------------------------------------------------
(* Decoded frames and mask regions *)

MaskRegions == {"speaker", "subtitle"}     \* main(): the keys of the masks in roi_json

\* The bits of the fingerprint a region of the frame bears on
RegionBits(roi) ==
    CASE roi = "speaker"  -> 49..54
      [] roi = "subtitle" -> 55..60

\* A frame as cap.read() returns it: the picture, nothing painted over
DecodedFrame(pic) == [pic |-> pic, painted |-> {}]

\* mask_frame(frame, roi): the region is painted with the median colour
MaskFrame(frame, roi) == [frame EXCEPT !.painted = @ \cup {roi}]

\* for roi in masks_roi: masked_frame = mask_frame(masked_frame, roi)
RECURSIVE MaskAll(_, _)
MaskAll(frame, rois) ==
    IF rois = {} THEN frame
    ELSE LET roi == CHOOSE r \in rois : TRUE
         IN  MaskAll(MaskFrame(frame, roi), rois \ {roi})

\* imagehash.phash of a frame: a painted region contributes no bit
PhashOfFrame(frame) ==
    Phash(frame.pic) \ UNION {RegionBits(roi) : roi \in frame.painted}

\* _read_frame_at_position: (unmasked_frame, slide_frame); the masks are painted
\* on a copy of the frame
ReadFrameMaskedInPlace(pic, rois) ==
    [unmasked |-> MaskAll(DecodedFrame(pic), rois),
     slide |-> MaskAll(DecodedFrame(pic), rois)]
ReadFrameAtPosition(pic, rois) ==
    [unmasked |-> DecodedFrame(pic),
     slide |-> MaskAll(DecodedFrame(pic), rois)]

\* lines 147-161: the fingerprint of a sampled frame, taken of the masked copy
SlideHash(pic) == PhashOfFrame(MaskAll(DecodedFrame(pic), masks_roi))

-----------------------------------------------------------------------------
(* The video *)

SlideA == {"A", "A2"}                 \* one slide, its frames within T of each other
FarFromA == Pictures \ SlideA         \* transition frames, more than T from the slide

\* The pictures the video can show at frame n: in the re-display scenario the
\* slide for 10 seconds, a transition for 3, the slide again; in the credits a
\* slide for the first second, then lists of names and short captions; in the
\* animation a slide that changes in small steps; in the schedule family two
\* slides, scanned under several values of the parameters
Frames(n) ==
    CASE source = "redisplay" ->
            (IF n < 10 * fps \/ n >= 13 * fps THEN SlideA ELSE FarFromA)
      [] source = "credits" ->
            (IF n < fps THEN {"A"} ELSE NameLists \cup {"S"})
      [] source = "animation" -> Animation
      [] source = "schedule" -> TwoSlides
      [] source = "pair" ->
            (IF video[n + 1] = NotShown THEN PairPictures ELSE {video[n + 1]} \ {EndOfStream})
      [] OTHER -> Pictures

\* The video of the pair family is made up as the first scan reads it and is
\* the same video for the second scan: what a frame has shown it shows again
Seen(v, n, pic) == IF source = "pair" THEN [v EXCEPT ![n + 1] = pic] ELSE v

PosMsec(n) == (n * 1000) \div fps     \* cap.get(cv2.CAP_PROP_POS_MSEC) after reading frame n

-----------------------------------------------------------------------------
(* Helpers of the scan *)

\* _is_duplicate_slide: is current within the threshold of a hash of the index
IsDuplicateOfLast(current, index, threshold) ==
    index # <<>> /\ HashDiff(current, index[Len(index)].hash) <= threshold
IsDuplicateSlide(current, index, threshold) ==
    \E i \in 1..Len(index) : HashDiff(current, index[i].hash) <= threshold

\* slide_hash_index[key] = (gid, hash): a dict keeps the position of a key it has
DictSet(index, key, gid, hash) ==
    IF \E i \in 1..Len(index) : index[i].key = key
    THEN [i \in 1..Len(index) |->
            IF index[i].key = key THEN [key |-> key, group_id |-> gid, hash |-> hash]
            ELSE index[i]]
    ELSE Append(index, [key |-> key, group_id |-> gid, hash |-> hash])

MiddleIdxLower(members) == (Len(members) - 1) \div 2
MiddleIdx(members) == Len(members) \div 2     \* 0-based, as in the code

Slide(gid, ts, text, hash) ==
    [group_id |-> gid, timestamp |-> ts, image_path |-> <<"slide", gid>>,
     ocr_text |-> text, imagehash |-> hash]

\* lines 220-222: group_id += 1 after every closed group, added or not
GroupIdStuck(g, add) == g
GroupIdOnAccept(g, add) == IF add THEN g + 1 ELSE g
GroupIdAfterClose(g, add) == g + 1

\* lines 223-228: the continue skips line 239, so the last hash stays the one
\* of the last frame before the boundary
LastHashFromBoundary(hash) == hash
LastHashAfterClose(hash) == last_slide_hash

\* lines 223-224: the member list is emptied and no group is open
MembersKept(members) == members
MembersAfterClose(members) == <<>>

GroupStaysStarted(started) == started
GroupStartedAfterClose(started) == FALSE

\* lines 208-216, 259-265: 'timestamp': first_timestamp_of_group
TimestampOfMiddle(first_timestamp, middle_frame_num) == PosMsec(middle_frame_num)
TimestampOfSlide(first_timestamp, middle_frame_num) == first_timestamp

\* lines 196-198: if len(names) > len(speaker_names)
ReplacesOnTie(names, held) == Len(names) >= Len(held)
ReplacesNameBlock(names, held) == Len(names) > Len(held)

\* lines 273-278: speaker_names.txt is written if names were retained
NamesFileAlways(names, text, file) == <<text>>
NamesFileAfterScan(names, text, file) == IF Len(names) > 0 THEN <<text>> ELSE file

\* line 164: a frame is a boundary if no frame was hashed before it or it is more
\* than the threshold from the frame hashed last
IsBoundaryFirstOnly(hash) == last_slide_hash = None
IsBoundary(hash) ==
    last_slide_hash = None \/ HashDiff(hash, last_slide_hash) > similarity_threshold

\* The verdict on a closed group's middle frame (lines 178-200):
\* add_new_slide, and the name block it leaves
GateAtBoundary(decoded, text, hash) ==
    LET keep == [add |-> FALSE, why |-> "", speaker_names |-> speaker_names,
                 names_text |-> names_text, analysed |-> FALSE]
        a == AnalyzeTextForNames(text)
    IN  IF ~decoded THEN [keep EXCEPT !.why = "undecoded"]
        ELSE IF Len(text) < MIN_OCR_TEXT_LENGTH THEN [keep EXCEPT !.why = "short"]
        ELSE IF slide_hash_index # <<>>
        THEN IF IsDuplicateSlide(hash, slide_hash_index, similarity_threshold)
             THEN [keep EXCEPT !.why = "duplicate"]
             ELSE IF Len(text) <= MAX_OCR_TEXT_FOR_NAME_CHECK
                  THEN IF a.is_mostly_names
                       THEN [add |-> FALSE, why |-> "names", analysed |-> TRUE,
                             speaker_names |-> IF ReplacesNameBlock(a.names, speaker_names)
                                               THEN a.names ELSE speaker_names,
                             names_text |-> IF ReplacesNameBlock(a.names, speaker_names)
                                            THEN text ELSE names_text]
                       ELSE [keep EXCEPT !.add = TRUE, !.why = "accepted",
                                         !.analysed = TRUE]
                  ELSE [keep EXCEPT !.add = TRUE, !.why = "accepted"]
        ELSE [keep EXCEPT !.add = TRUE, !.why = "accepted"]

\* The verdict on the group open when the loop ends (lines 250-254)
GateAtEndNoMinimum(decoded, text) ==
    IF ~decoded THEN "undecoded" ELSE "accepted"
GateAtEnd(decoded, text) ==
    IF ~decoded THEN "undecoded"
    ELSE IF Len(text) >= MIN_OCR_TEXT_LENGTH THEN "accepted"
    ELSE "short"

\* What is remembered of a closed group: how it was closed and at which frame,
\* its members, its middle frame as it was read, and the verdict
ClosedRecord(via, selected_slide, frame, decoded, why, hash, at) ==
    [via |-> via, group_id |-> group_id, rep |-> selected_slide.pic, rep_frame |-> frame,
     decoded |-> decoded, outcome |-> why, compared_hash |-> hash,
     ocr_input |-> selected_slide, members |-> group_frame_numbers,
     last_member |-> group_pics[Len(group_pics)], closed_at |-> at]

\* One entry of the log of calls: a frame read by the loop ("read"), a middle
\* frame read again ("reread"), a text extraction ("ocr"), a name analysis ("names")
Call(op, frame) == [op |-> op, frame |-> frame]

\* lines 170-194, 245-252: the calls made for a closed group: its middle frame is
\* read again, its text extracted if the frame was decoded, and the names looked
\* for if the gate comes to that
CallsOfCloseOcrEveryMember(members, middle_frame_num, decoded, analysed) ==
    <<Call("reread", middle_frame_num)>>
      \o [k \in 1..Len(members) |-> Call("ocr", members[k])]
      \o (IF analysed THEN <<Call("names", middle_frame_num)>> ELSE <<>>)
CallsOfClose(members, middle_frame_num, decoded, analysed) ==
    <<Call("reread", middle_frame_num)>>
      \o (IF decoded THEN <<Call("ocr", middle_frame_num)>> ELSE <<>>)
      \o (IF analysed THEN <<Call("names", middle_frame_num)>> ELSE <<>>)

\* lines 225-226: frame_number = current_pos + fps * 3 after every closed group,
\* added or not
FrameAfterCloseIfAdded(current_pos, add) ==
    IF add THEN current_pos + fps * DeadTimeSeconds ELSE current_pos + fps * frame_rate
FrameAfterCloseInFrames(current_pos, add) == current_pos + DeadTimeSeconds
FrameAfterCloseStays(current_pos, add) == current_pos
FrameAfterClose(current_pos, add) == current_pos + fps * DeadTimeSeconds

\* line 227: cap.set(cv2.CAP_PROP_POS_FRAMES, frame_number) after the re-read left
\* the position behind the middle frame
SeekForgotten(frame, middle_frame_num) == middle_frame_num + 1
SeekAfterClose(frame, middle_frame_num) == frame

\* lines 81-84: the re-read of a middle frame succeeds or returns (None, None);
\* the videos of the free family are intact, every frame of them can be read
\* again, and so can those the two variants are compared on
DecodeOutcomes ==
    IF source \notin {"free", "pair"}
         /\ Cardinality({i \in 1..Len(closed) : ~closed[i].decoded}) < MaxUndecoded
    THEN BOOLEAN ELSE {TRUE}

-----------------------------------------------------------------------------
(* extract_unique_slides *)

\* The values of the parameters the schedule family is scanned under
\* (main(): -s, -e, -f; the frame rate of the video)
ScheduleFps == {1, 2}
ScheduleStarts == {0, 1}
ScheduleEnds == {NoEnd, 0, 4}
ScheduleRates == {1, 2}

InitScan ==
    /\ fps \in IF source = "schedule" THEN ScheduleFps ELSE {1}
    /\ start_seconds \in IF source = "schedule" THEN ScheduleStarts ELSE {0}
    /\ end_seconds \in IF source = "schedule" THEN ScheduleEnds ELSE {NoEnd}
    /\ frame_rate \in IF source = "schedule" THEN ScheduleRates ELSE {1}
    /\ frame_count = CASE source = "free" -> MaxFrames
                        [] source = "redisplay" -> 25 * fps
                        [] source = "credits" -> 10 * fps
                        [] source = "animation" -> 6 * fps
                        [] source = "schedule" -> 10 * fps
                        [] source = "pair" -> 10 * fps
    /\ masks_roi \in IF source \in {"redisplay", "pair"} THEN {{}, MaskRegions} ELSE {{}}
    /\ video = IF source = "pair" THEN [n \in 1..frame_count |-> NotShown] ELSE <<>>
    /\ baseline = <<>>
    /\ cap_pos = 0
    /\ calls = <<>>
    /\ pc = "start"
    /\ frame_number = 0
    /\ end_frame = 0
    /\ unique_slides = <<>>
    /\ slide_hash_index = <<>>
    /\ last_slide_hash = None
    /\ current_hash = None
    /\ group_started = FALSE
    /\ first_timestamp_of_group = -1
    /\ group_frame_numbers = <<>>
    /\ group_pics = <<>>
    /\ speaker_names = <<>>
    /\ names_text = <<>>
    /\ group_id = 0
    /\ slides_buffer = <<>>
    /\ images = <<>>
    /\ names_file = <<>>
    /\ manifest = <<>>
    /\ is_opened = FALSE
    /\ result = <<>>
    /\ final_slides = <<>>
    /\ releases = 0
    /\ raised = FALSE
    /\ reads = 0
    /\ read_failed = FALSE
    /\ imwrites = <<>>
    /\ removed = <<>>
    /\ images_before = <<>>
    /\ closed = <<>>

Init ==
    /\ source \in {"free", "redisplay", "credits", "animation", "schedule"}
    /\ InitScan

params == <<source, frame_count, masks_roi, fps, start_seconds, end_seconds, frame_rate>>
legacyState == <<slides_buffer>>
logState == <<cap_pos, calls>>
scanState == <<frame_number, end_frame, unique_slides, slide_hash_index, last_slide_hash,
               current_hash, group_started, first_timestamp_of_group,
               group_frame_numbers, group_pics, speaker_names, names_text, group_id>>
disk == <<images, names_file, manifest>>
passState == <<final_slides, removed, images_before>>

OpenFailsNoReturn ==
    /\ pc = "start"
    /\ pc' = "loop"
    /\ frame_number' = start_seconds * fps
    /\ cap_pos' = start_seconds * fps
    /\ end_frame' = frame_count
    /\ UNCHANGED <<params, video, baseline, calls, legacyState, unique_slides, slide_hash_index, last_slide_hash, current_hash,
                   group_started, first_timestamp_of_group, group_frame_numbers,
                   group_pics, speaker_names, names_text, group_id, disk, passState,
                   is_opened, result, releases, raised, reads, read_failed, imwrites,
                   closed>>

\* lines 107-110: the video cannot be opened
OpenFails ==
    /\ pc = "start"
    /\ pc' = "returned"
    /\ result' = <<>>
    /\ UNCHANGED <<params, video, baseline, logState, legacyState, scanState, disk, passState, is_opened, releases, raised,
                   reads, read_failed, imwrites, closed>>

\* lines 107-138: the video opens; the locals of _extract_slides_impl
OpenOk ==
    /\ pc = "start"
    /\ is_opened' = TRUE
    /\ pc' = "loop"
    /\ frame_number' = start_seconds * fps
    /\ cap_pos' = start_seconds * fps
    /\ end_frame' = IF end_seconds # NoEnd /\ end_seconds # 0
                    THEN end_seconds * fps ELSE frame_count
    /\ UNCHANGED <<params, video, baseline, calls, legacyState, unique_slides, slide_hash_index, last_slide_hash, current_hash,
                   group_started, first_timestamp_of_group, group_frame_numbers,
                   group_pics, speaker_names, names_text, group_id, disk, passState,
                   result, releases, raised, reads, read_failed, imwrites, closed>>

\* The loop runs and cap.read() returns a frame
CanRead ==
    /\ pc = "loop"
    /\ frame_number < end_frame
    /\ cap_pos < frame_count

\* lines 143-145: cap.read() fails
ReadFails ==
    /\ pc = "loop"
    /\ frame_number < end_frame
    /\ pc' = "flush"
    /\ reads' = reads + 1
    /\ read_failed' = TRUE
    /\ UNCHANGED <<params, video, baseline, logState, legacyState, scanState, disk, passState, is_opened, result, releases,
                   raised, imwrites, closed>>

\* line 142: the loop condition fails
LoopEnds ==
    /\ pc = "loop"
    /\ frame_number >= end_frame
    /\ pc' = "flush"
    /\ UNCHANGED <<params, video, baseline, logState, legacyState, scanState, disk, passState, is_opened, result, releases,
                   raised, reads, read_failed, imwrites, closed>>

\* lines 143-164, 230-233, 239-241: a boundary with no group open starts a group
StartGroup ==
    /\ CanRead
    /\ \E pic \in Frames(cap_pos) :
        /\ IsBoundary(SlideHash(pic))
        /\ ~(group_started /\ group_frame_numbers # <<>>)
        /\ current_hash' = SlideHash(pic)
        /\ video' = Seen(video, cap_pos, pic)
        /\ first_timestamp_of_group' = PosMsec(cap_pos)
        /\ group_frame_numbers' = <<frame_number>>
        /\ group_pics' = <<pic>>
        /\ group_started' = TRUE
        /\ last_slide_hash' = SlideHash(pic)
    /\ frame_number' = frame_number + fps * frame_rate
    /\ cap_pos' = frame_number'
    /\ calls' = Append(calls, Call("read", cap_pos))
    /\ reads' = reads + 1
    /\ UNCHANGED <<params, baseline, legacyState, pc, end_frame, unique_slides, slide_hash_index, speaker_names,
                   names_text, group_id, disk, passState, is_opened, result, releases,
                   raised, read_failed, imwrites, closed>>

\* lines 143-164, 234-241: a frame within the threshold of the last one
SimilarFrame ==
    /\ CanRead
    /\ \E pic \in Frames(cap_pos) :
        /\ ~IsBoundary(SlideHash(pic))
        /\ current_hash' = SlideHash(pic)
        /\ video' = Seen(video, cap_pos, pic)
        /\ group_frame_numbers' = IF group_started
                                  THEN Append(group_frame_numbers, frame_number)
                                  ELSE group_frame_numbers
        /\ group_pics' = IF group_started THEN Append(group_pics, pic) ELSE group_pics
        /\ last_slide_hash' = SlideHash(pic)
    /\ frame_number' = frame_number + fps * frame_rate
    /\ cap_pos' = frame_number'
    /\ calls' = Append(calls, Call("read", cap_pos))
    /\ reads' = reads + 1
    /\ UNCHANGED <<params, baseline, legacyState, pc, end_frame, unique_slides, slide_hash_index, group_started,
                   first_timestamp_of_group, speaker_names, names_text, group_id, disk,
                   passState, is_opened, result, releases, raised, read_failed,
                   imwrites, closed>>

\* lines 143-228: a boundary closes the open group; the middle frame is re-read
\* (decoded or not), judged, and saved if accepted; then 3 seconds are skipped
CloseGroup ==
    /\ CanRead
    /\ \E pic \in Frames(cap_pos), decoded \in DecodeOutcomes :
        LET hash == SlideHash(pic)
            middle_idx == MiddleIdx(group_frame_numbers)
            middle_frame_num == group_frame_numbers[middle_idx + 1]
            selected_slide ==
                ReadFrameAtPosition(group_pics[middle_idx + 1], masks_roi).unmasked
            ocr_text == ImageToString(selected_slide.pic)
            gate == GateAtBoundary(decoded, ocr_text, hash)
        IN  /\ IsBoundary(hash)
            /\ group_started /\ group_frame_numbers # <<>>
            /\ current_hash' = hash
            /\ video' = Seen(video, cap_pos, pic)
            /\ last_slide_hash' = LastHashAfterClose(hash)
            /\ group_id' = GroupIdAfterClose(group_id, gate.add)
            /\ speaker_names' = gate.speaker_names
            /\ names_text' = gate.names_text
            /\ IF gate.add
               THEN /\ images' = (group_id :> selected_slide) @@ images
                    /\ imwrites' = Append(imwrites, group_id)
                    /\ slide_hash_index' =
                           DictSet(slide_hash_index, HashStr(hash), group_id, hash)
                    /\ unique_slides' =
                           Append(unique_slides,
                                  Slide(group_id,
                                        TimestampOfSlide(first_timestamp_of_group,
                                                         middle_frame_num),
                                        ocr_text, hash))
               ELSE UNCHANGED <<images, imwrites, slide_hash_index, unique_slides>>
            /\ closed' = Append(closed, ClosedRecord("boundary", selected_slide,
                                                     middle_frame_num, decoded, gate.why,
                                                     hash, frame_number))
            /\ frame_number' = FrameAfterClose(frame_number, gate.add)
            /\ cap_pos' = SeekAfterClose(frame_number', middle_frame_num)
            /\ calls' = Append(calls, Call("read", cap_pos))
                          \o CallsOfClose(group_frame_numbers, middle_frame_num, decoded,
                                          gate.analysed)
    /\ group_frame_numbers' = MembersAfterClose(group_frame_numbers)
    /\ group_pics' = <<>>
    /\ group_started' = GroupStartedAfterClose(group_started)
    /\ reads' = reads + 2
    /\ UNCHANGED <<params, baseline, legacyState, pc, end_frame, first_timestamp_of_group,
                   names_file, manifest, passState, is_opened, result, releases, raised,
                   read_failed>>

\* As CloseGroupRaises, with the exception caught and the scan ended
CloseGroupSwallows ==
    /\ CanRead
    /\ \E pic \in Frames(cap_pos), raises \in {"ocr", "names"} :
        LET hash == SlideHash(pic)
            middle_idx == MiddleIdx(group_frame_numbers)
            middle_frame_num == group_frame_numbers[middle_idx + 1]
            ocr_text == ImageToString(group_pics[middle_idx + 1])
            analysed == GateAtBoundary(TRUE, ocr_text, hash).analysed
        IN  /\ IsBoundary(hash)
            /\ group_started /\ group_frame_numbers # <<>>
            /\ raises = "names" => analysed
            /\ current_hash' = hash
            /\ cap_pos' = middle_frame_num + 1
            /\ calls' = Append(calls, Call("read", cap_pos))
                          \o CallsOfClose(group_frame_numbers, middle_frame_num, TRUE,
                                          raises = "names")
    /\ reads' = reads + 2
    /\ pc' = "flush"
    /\ raised' = TRUE
    /\ UNCHANGED <<params, video, baseline, legacyState, frame_number, end_frame, unique_slides, slide_hash_index,
                   last_slide_hash, group_started, first_timestamp_of_group,
                   group_frame_numbers, group_pics, speaker_names, names_text, group_id,
                   disk, passState, is_opened, result, read_failed, imwrites, closed, releases>>

\* lines 177-194: text extraction or the name classifier raises while a group is
\* being closed; the exception leaves extract_unique_slides through the finally
CloseGroupRaises ==
    /\ CanRead
    /\ \E pic \in Frames(cap_pos), raises \in {"ocr", "names"} :
        LET hash == SlideHash(pic)
            middle_idx == MiddleIdx(group_frame_numbers)
            middle_frame_num == group_frame_numbers[middle_idx + 1]
            ocr_text == ImageToString(group_pics[middle_idx + 1])
            analysed == GateAtBoundary(TRUE, ocr_text, hash).analysed
        IN  /\ IsBoundary(hash)
            /\ group_started /\ group_frame_numbers # <<>>
            /\ raises = "names" => analysed
            /\ current_hash' = hash
            /\ cap_pos' = middle_frame_num + 1
            /\ calls' = Append(calls, Call("read", cap_pos))
                          \o CallsOfClose(group_frame_numbers, middle_frame_num, TRUE,
                                          raises = "names")
    /\ reads' = reads + 2
    /\ pc' = "raised"
    /\ raised' = TRUE
    /\ releases' = releases + 1
    /\ UNCHANGED <<params, video, baseline, legacyState, frame_number, end_frame, unique_slides, slide_hash_index,
                   last_slide_hash, group_started, first_timestamp_of_group,
                   group_frame_numbers, group_pics, speaker_names, names_text, group_id,
                   disk, passState, is_opened, result, read_failed, imwrites, closed>>

\* line 270-271: every imagehash becomes its string
HashesToStrings(slides) ==
    [i \in 1..Len(slides) |-> [slides[i] EXCEPT !.imagehash = HashStr(@)]]

\* lines 243-280 and 115: the group open at the end of the loop is judged and
\* saved, the hashes become strings, the name block is written, the list returned
FlushLast ==
    /\ pc = "flush"
    /\ pc' = "returned"
    /\ IF group_started /\ group_frame_numbers # <<>>
       THEN \E decoded \in DecodeOutcomes :
            LET middle_idx == MiddleIdx(group_frame_numbers)
                middle_frame_num == group_frame_numbers[middle_idx + 1]
                selected_slide ==
                    ReadFrameAtPosition(group_pics[middle_idx + 1], masks_roi).unmasked
                ocr_text == ImageToString(selected_slide.pic)
                why == GateAtEnd(decoded, ocr_text)
                slides == IF why = "accepted"
                          THEN Append(unique_slides,
                                      Slide(group_id,
                                            TimestampOfSlide(first_timestamp_of_group,
                                                             middle_frame_num),
                                            ocr_text, current_hash))
                          ELSE unique_slides
            IN  /\ reads' = reads + 1
                /\ IF why = "accepted"
                   THEN /\ images' = (group_id :> selected_slide) @@ images
                        /\ imwrites' = Append(imwrites, group_id)
                   ELSE UNCHANGED <<images, imwrites>>
                /\ unique_slides' = slides
                /\ closed' = Append(closed, ClosedRecord("flush", selected_slide,
                                                         middle_frame_num, decoded, why,
                                                         current_hash, frame_number))
                /\ cap_pos' = IF decoded THEN middle_frame_num + 1 ELSE middle_frame_num
                /\ calls' = calls \o CallsOfClose(group_frame_numbers, middle_frame_num,
                                                  decoded, FALSE)
       ELSE /\ unique_slides' = unique_slides
            /\ UNCHANGED <<reads, images, imwrites, closed, logState>>
    /\ names_file' = NamesFileAfterScan(speaker_names, names_text, names_file)
    /\ result' = HashesToStrings(unique_slides')
    /\ releases' = releases + 1
    /\ UNCHANGED <<params, video, baseline, legacyState, frame_number, end_frame, slide_hash_index, last_slide_hash,
                   current_hash, group_started, first_timestamp_of_group,
                   group_frame_numbers, group_pics, speaker_names, names_text, group_id,
                   manifest, passState, is_opened, raised, read_failed>>

\* line 252: text extraction raises on the last group's middle frame
FlushRaises ==
    /\ pc = "flush"
    /\ group_started /\ group_frame_numbers # <<>>
    /\ reads' = reads + 1
    /\ LET middle_frame_num == group_frame_numbers[MiddleIdx(group_frame_numbers) + 1]
       IN  /\ cap_pos' = middle_frame_num + 1
           /\ calls' = calls \o CallsOfClose(group_frame_numbers, middle_frame_num,
                                             TRUE, FALSE)
    /\ pc' = "raised"
    /\ raised' = TRUE
    /\ releases' = releases + 1
    /\ UNCHANGED <<params, video, baseline, legacyState, scanState, disk, passState, is_opened, result, read_failed,
                   imwrites, closed>>

-----------------------------------------------------------------------------
(* deduplicate_slides_by_ocr and main() *)

RemoveFileForgotten(files, gid) == files
\* os.remove(slide_filepath)
RemoveFile(files, gid) == [g \in DOMAIN files \ {gid} |-> files[g]]

\* lines 306-309: the text a slide is compared by
TextKeyRaw(slide) == slide.ocr_text
TextKey(slide) == NormalizedText(slide.ocr_text)

\* lines 301-324: the loop over the slides from position i on
RECURSIVE DedupFrom(_, _, _, _, _, _)
DedupFrom(slides, i, seen_ocr_texts, deduplicated_slides, files, deleted) ==
    IF i > Len(slides)
    THEN [slides |-> deduplicated_slides, files |-> files, deleted |-> deleted]
    ELSE LET slide == slides[i]
             normalized_text == TextKey(slide)
         IN  IF normalized_text \in seen_ocr_texts
             THEN IF slide.group_id \in DOMAIN files
                  THEN DedupFrom(slides, i + 1, seen_ocr_texts, deduplicated_slides,
                                 RemoveFile(files, slide.group_id),
                                 Append(deleted, slide.group_id))
                  ELSE DedupFrom(slides, i + 1, seen_ocr_texts, deduplicated_slides,
                                 files, deleted)
             ELSE DedupFrom(slides, i + 1, seen_ocr_texts \cup {normalized_text},
                            Append(deduplicated_slides, slide), files, deleted)

\* As the pass, but a slide is compared with the slide kept last only
RECURSIVE DedupAdjacentFrom(_, _, _, _, _)
DedupAdjacentFrom(slides, i, kept, files, deleted) ==
    IF i > Len(slides) THEN [slides |-> kept, files |-> files, deleted |-> deleted]
    ELSE IF kept # <<>> /\ TextKey(kept[Len(kept)]) = TextKey(slides[i])
    THEN DedupAdjacentFrom(slides, i + 1, kept, RemoveFile(files, slides[i].group_id),
                           Append(deleted, slides[i].group_id))
    ELSE DedupAdjacentFrom(slides, i + 1, Append(kept, slides[i]), files, deleted)

DedupAdjacent(slides, files) == DedupAdjacentFrom(slides, 1, <<>>, files, <<>>)

\* As the pass, but nothing more is removed once a duplicate was removed
RECURSIVE DedupFirstOnlyFrom(_, _, _, _, _, _)
DedupFirstOnlyFrom(slides, i, seen_ocr_texts, deduplicated_slides, files, deleted) ==
    IF i > Len(slides)
    THEN [slides |-> deduplicated_slides, files |-> files, deleted |-> deleted]
    ELSE IF TextKey(slides[i]) \in seen_ocr_texts /\ deleted = <<>>
    THEN DedupFirstOnlyFrom(slides, i + 1, seen_ocr_texts, deduplicated_slides,
                            RemoveFile(files, slides[i].group_id),
                            Append(deleted, slides[i].group_id))
    ELSE DedupFirstOnlyFrom(slides, i + 1, seen_ocr_texts \cup {TextKey(slides[i])},
                            Append(deduplicated_slides, slides[i]), files, deleted)

DedupFirstOnly(slides, files) == DedupFirstOnlyFrom(slides, 1, {}, <<>>, files, <<>>)

\* deduplicate_slides_by_ocr(unique_slides, save_folder)
DeduplicateSlidesByOcr(slides, files) ==
    IF slides = <<>> THEN [slides |-> slides, files |-> files, deleted |-> <<>>]
    ELSE DedupFrom(slides, 1, {}, <<>>, files, <<>>)

\* line 391: main() runs the exact-text pass on the list the scan returned
ExactTextPass ==
    /\ pc = "returned"
    /\ LET out == DeduplicateSlidesByOcr(result, images)
       IN  /\ final_slides' = out.slides
           /\ images' = out.files
           /\ removed' = out.deleted
    /\ images_before' = images
    /\ pc' = "deduplicated"
    /\ UNCHANGED <<params, video, baseline, logState, legacyState, scanState, names_file, manifest, is_opened, result, releases,
                   raised, reads, read_failed, imwrites, closed>>

\* lines 394-396: main() writes slides.json
WriteManifest ==
    /\ pc = "deduplicated"
    /\ manifest' = <<final_slides>>
    /\ pc' = "done"
    /\ UNCHANGED <<params, video, baseline, logState, legacyState, scanState, images, names_file, passState, is_opened, result,
                   releases, raised, reads, read_failed, imwrites, closed>>

Next ==
    \/ OpenFails
    \/ OpenOk
    \/ ReadFails
    \/ LoopEnds
    \/ StartGroup
    \/ SimilarFrame
    \/ CloseGroup
    \/ CloseGroupRaises
    \/ FlushLast
    \/ FlushRaises
    \/ ExactTextPass
    \/ WriteManifest

Spec == Init /\ [][Next]_vars

-----------------------------------------------------------------------------
(* The earlier variant, 02-extract-slides.py: the unmasked frames of the open   *)
(* group are kept in slides_buffer and the middle one is taken from the buffer; *)
(* there is no slide_hash_index, no finally, and no exact-text pass. Opening    *)
(* the video, a failed read and the end of the loop are the statements of the   *)
(* later variant (lines 39-49, 62-65).                                          *)

IsRead(c) == c.op = "read"

\* The frame indices the loop has read, in order
Ticks ==
    LET read == SelectSeq(calls, IsRead)
    IN  [k \in 1..Len(read) |-> read[k].frame]

\* The frame index of the k-th frame of slides_buffer (0-based, as in the code):
\* the buffer holds the frames read last
BufferedFrame(k) == Ticks[Len(Ticks) - Len(slides_buffer) + k + 1]

\* lines 98-124: the verdict on the middle frame of the buffer
GateAtBoundary02(text, hash) ==
    LET keep == [add |-> FALSE, why |-> "", speaker_names |-> speaker_names,
                 names_text |-> names_text, analysed |-> FALSE]
        a == AnalyzeTextForNames(text)
    IN  IF Len(text) < 10 THEN [keep EXCEPT !.why = "short"]
        ELSE IF Len(unique_slides) > 0
        THEN IF \E k \in 1..Len(unique_slides) :
                    HashDiff(hash, unique_slides[k].imagehash) <= similarity_threshold
             THEN [keep EXCEPT !.why = "duplicate"]
             ELSE IF Len(text) <= 300
                  THEN IF a.is_mostly_names
                       THEN [add |-> FALSE, why |-> "names", analysed |-> TRUE,
                             speaker_names |-> IF Len(a.names) > Len(speaker_names)
                                               THEN a.names ELSE speaker_names,
                             names_text |-> IF Len(a.names) > Len(speaker_names)
                                            THEN text ELSE names_text]
                       ELSE [keep EXCEPT !.add = TRUE, !.why = "accepted",
                                         !.analysed = TRUE]
                  ELSE [keep EXCEPT !.add = TRUE, !.why = "accepted"]
        ELSE [keep EXCEPT !.add = TRUE, !.why = "accepted"]

\* lines 63-87, 151-154, 160-162: a boundary with no group open starts a group
StartGroup02 ==
    /\ CanRead
    /\ \E pic \in Frames(cap_pos) :
        /\ IsBoundary(SlideHash(pic))
        /\ ~(group_started /\ slides_buffer # <<>>)
        /\ current_hash' = SlideHash(pic)
        /\ video' = Seen(video, cap_pos, pic)
        /\ first_timestamp_of_group' = PosMsec(cap_pos)
        /\ slides_buffer' = <<DecodedFrame(pic)>>
        /\ group_started' = TRUE
        /\ last_slide_hash' = SlideHash(pic)
    /\ frame_number' = frame_number + fps * frame_rate
    /\ cap_pos' = frame_number'
    /\ calls' = Append(calls, Call("read", cap_pos))
    /\ reads' = reads + 1
    /\ UNCHANGED <<params, baseline, pc, end_frame, unique_slides, slide_hash_index,
                   group_frame_numbers, group_pics, speaker_names, names_text, group_id,
                   disk, passState, is_opened, result, releases, raised, read_failed,
                   imwrites, closed>>

\* lines 63-87, 155-162: a frame within the threshold of the last one
SimilarFrame02 ==
    /\ CanRead
    /\ \E pic \in Frames(cap_pos) :
        /\ ~IsBoundary(SlideHash(pic))
        /\ current_hash' = SlideHash(pic)
        /\ video' = Seen(video, cap_pos, pic)
        /\ slides_buffer' = IF group_started
                            THEN Append(slides_buffer, DecodedFrame(pic))
                            ELSE slides_buffer
        /\ last_slide_hash' = SlideHash(pic)
    /\ frame_number' = frame_number + fps * frame_rate
    /\ cap_pos' = frame_number'
    /\ calls' = Append(calls, Call("read", cap_pos))
    /\ reads' = reads + 1
    /\ UNCHANGED <<params, baseline, pc, end_frame, unique_slides, slide_hash_index, group_started,
                   first_timestamp_of_group, group_frame_numbers, group_pics,
                   speaker_names, names_text, group_id, disk, passState, is_opened,
                   result, releases, raised, read_failed, imwrites, closed>>

\* lines 63-149: a boundary closes the open group; the middle frame of the buffer
\* is judged and saved if accepted; then 3 seconds are skipped
CloseGroup02 ==
    /\ CanRead
    /\ \E pic \in Frames(cap_pos) :
        LET hash == SlideHash(pic)
            slide_index == Len(slides_buffer) \div 2
            selected_slide == slides_buffer[slide_index + 1]
            ocr_text == ImageToString(selected_slide.pic)
            gate == GateAtBoundary02(ocr_text, hash)
        IN  /\ IsBoundary(hash)
            /\ group_started /\ slides_buffer # <<>>
            /\ current_hash' = hash
            /\ video' = Seen(video, cap_pos, pic)
            /\ speaker_names' = gate.speaker_names
            /\ names_text' = gate.names_text
            /\ IF gate.add
               THEN /\ images' = (group_id :> selected_slide) @@ images
                    /\ imwrites' = Append(imwrites, group_id)
                    /\ unique_slides' =
                           Append(unique_slides,
                                  Slide(group_id, first_timestamp_of_group, ocr_text, hash))
               ELSE UNCHANGED <<images, imwrites, unique_slides>>
            /\ calls' = Append(calls, Call("read", cap_pos))
                          \o <<Call("ocr", BufferedFrame(slide_index))>>
                          \o (IF gate.analysed
                              THEN <<Call("names", BufferedFrame(slide_index))>>
                              ELSE <<>>)
    /\ slides_buffer' = <<>>
    /\ group_id' = group_id + 1
    /\ group_started' = FALSE
    /\ frame_number' = frame_number + fps * 3
    /\ cap_pos' = frame_number'
    /\ reads' = reads + 1
    /\ UNCHANGED <<params, baseline, pc, end_frame, slide_hash_index, last_slide_hash,
                   first_timestamp_of_group, group_frame_numbers, group_pics, names_file,
                   manifest, passState, is_opened, result, releases, raised, read_failed,
                   closed>>

\* lines 103, 118: text extraction or the name classifier raises; nothing
\* releases the video
CloseGroup02Raises ==
    /\ CanRead
    /\ \E pic \in Frames(cap_pos), raises \in {"ocr", "names"} :
        LET hash == SlideHash(pic)
            slide_index == Len(slides_buffer) \div 2
            ocr_text == ImageToString(slides_buffer[slide_index + 1].pic)
        IN  /\ IsBoundary(hash)
            /\ group_started /\ slides_buffer # <<>>
            /\ raises = "names" => GateAtBoundary02(ocr_text, hash).analysed
            /\ current_hash' = hash
            /\ calls' = Append(calls, Call("read", cap_pos))
                          \o <<Call("ocr", BufferedFrame(slide_index))>>
                          \o (IF raises = "names"
                              THEN <<Call("names", BufferedFrame(slide_index))>>
                              ELSE <<>>)
    /\ cap_pos' = cap_pos + 1
    /\ reads' = reads + 1
    /\ pc' = "raised"
    /\ raised' = TRUE
    /\ UNCHANGED <<params, video, baseline, legacyState, frame_number, end_frame, unique_slides,
                   slide_hash_index, last_slide_hash, group_started,
                   first_timestamp_of_group, group_frame_numbers, group_pics,
                   speaker_names, names_text, group_id, disk, passState, is_opened,
                   result, releases, read_failed, imwrites, closed>>

\* lines 164-200: the group open at the end of the loop is judged and saved, the
\* video released, the hashes become strings, the name block is written
FlushLast02 ==
    /\ pc = "flush"
    /\ IF group_started /\ slides_buffer # <<>>
       THEN LET slide_index == Len(slides_buffer) \div 2
                selected_slide == slides_buffer[slide_index + 1]
                ocr_text == ImageToString(selected_slide.pic)
                slides == IF Len(ocr_text) >= 10
                          THEN Append(unique_slides,
                                      Slide(group_id, first_timestamp_of_group,
                                            ocr_text, current_hash))
                          ELSE unique_slides
            IN  /\ IF Len(ocr_text) >= 10
                   THEN /\ images' = (group_id :> selected_slide) @@ images
                        /\ imwrites' = Append(imwrites, group_id)
                   ELSE UNCHANGED <<images, imwrites>>
                /\ unique_slides' = slides
                /\ calls' = Append(calls, Call("ocr", BufferedFrame(slide_index)))
       ELSE /\ unique_slides' = unique_slides
            /\ UNCHANGED <<images, imwrites, calls>>
    /\ names_file' = IF Len(speaker_names) > 0 THEN <<names_text>> ELSE names_file
    /\ result' = HashesToStrings(unique_slides')
    /\ releases' = releases + 1
    /\ pc' = "returned"
    /\ UNCHANGED <<params, video, baseline, cap_pos, legacyState, frame_number, end_frame, slide_hash_index,
                   last_slide_hash, current_hash, group_started,
                   first_timestamp_of_group, group_frame_numbers, group_pics,
                   speaker_names, names_text, group_id, manifest, passState, is_opened,
                   raised, reads, read_failed, closed>>

\* line 171: text extraction raises on the last group's middle frame
FlushLast02Raises ==
    /\ pc = "flush"
    /\ group_started /\ slides_buffer # <<>>
    /\ calls' = Append(calls, Call("ocr", BufferedFrame(Len(slides_buffer) \div 2)))
    /\ pc' = "raised"
    /\ raised' = TRUE
    /\ UNCHANGED <<params, video, baseline, cap_pos, legacyState, scanState, disk, passState, is_opened, result,
                   releases, reads, read_failed, imwrites, closed>>

\* lines 257-261: main() writes slides.json with the list the scan returned
WriteManifest02 ==
    /\ pc = "returned"
    /\ manifest' = <<result>>
    /\ pc' = "done"
    /\ UNCHANGED <<params, video, baseline, logState, legacyState, scanState, images, names_file, passState,
                   is_opened, result, releases, raised, reads, read_failed, imwrites,
                   closed>>

Next02 ==
    \/ OpenFails
    \/ OpenOk
    \/ ReadFails
    \/ LoopEnds
    \/ StartGroup02
    \/ SimilarFrame02
    \/ CloseGroup02
    \/ CloseGroup02Raises
    \/ FlushLast02
    \/ FlushLast02Raises
    \/ WriteManifest02

Spec02 == Init /\ [][Next02]_vars

-----------------------------------------------------------------------------
(* The two variants on one video: scripts/extract-slides.py scans a video of   *)
(* the pair family, which is made up as it is read; then 02-extract-slides.py  *)
(* scans the same video, with the same parameters and mask regions, into an    *)
(* empty folder. The collaborators are functions of the frame, no re-read of a *)
(* middle frame fails, and a read that failed fails again.                     *)

\* lines 143-145 (02: 63-65): cap.read() fails at a frame of the video, and does
\* so whenever that frame is read
StreamEnds ==
    /\ pc = "loop"
    /\ frame_number < end_frame
    /\ cap_pos < frame_count
    /\ video[cap_pos + 1] \in {NotShown, EndOfStream}
    /\ video' = [video EXCEPT ![cap_pos + 1] = EndOfStream]
    /\ pc' = "flush"
    /\ reads' = reads + 1
    /\ read_failed' = TRUE
    /\ UNCHANGED <<params, baseline, logState, legacyState, scanState, disk, passState,
                   is_opened, result, releases, raised, imwrites, closed>>

\* What a scan leaves: the list returned and the name block retained
Outcome ==
    [result |-> result, speaker_names |-> speaker_names, names_text |-> names_text,
     names_file |-> names_file]

\* 02-extract-slides.py main(), lines 202-255: the earlier variant is started on
\* the video the later one has scanned
RunVariant02 ==
    /\ pc = "returned"
    /\ baseline = <<>>
    /\ baseline' = <<Outcome>>
    /\ cap_pos' = 0
    /\ calls' = <<>>
    /\ pc' = "start"
    /\ frame_number' = 0
    /\ end_frame' = 0
    /\ unique_slides' = <<>>
    /\ slide_hash_index' = <<>>
    /\ last_slide_hash' = None
    /\ current_hash' = None
    /\ group_started' = FALSE
    /\ first_timestamp_of_group' = -1
    /\ group_frame_numbers' = <<>>
    /\ group_pics' = <<>>
    /\ speaker_names' = <<>>
    /\ names_text' = <<>>
    /\ group_id' = 0
    /\ slides_buffer' = <<>>
    /\ images' = <<>>
    /\ names_file' = <<>>
    /\ manifest' = <<>>
    /\ is_opened' = FALSE
    /\ result' = <<>>
    /\ final_slides' = <<>>
    /\ releases' = 0
    /\ raised' = FALSE
    /\ reads' = 0
    /\ read_failed' = FALSE
    /\ imwrites' = <<>>
    /\ removed' = <<>>
    /\ images_before' = <<>>
    /\ closed' = <<>>
    /\ UNCHANGED <<params, video>>

InitBoth ==
    /\ source = "pair"
    /\ InitScan

NextBoth ==
    \/ OpenOk
    \/ LoopEnds
    \/ StreamEnds
    \/ baseline = <<>> /\ StartGroup
    \/ baseline = <<>> /\ SimilarFrame
    \/ baseline = <<>> /\ CloseGroup
    \/ baseline = <<>> /\ FlushLast
    \/ RunVariant02
    \/ baseline # <<>> /\ StartGroup02
    \/ baseline # <<>> /\ SimilarFrame02
    \/ baseline # <<>> /\ CloseGroup02
    \/ baseline # <<>> /\ FlushLast02

SpecBoth == InitBoth /\ [][NextBoth]_vars

-----------------------------------------------------------------------------
(* deduplicate_slides_by_ocr on any list of slides *)

PassAlphabet == {"a", " "}

PassTexts ==
    UNION {[1..n -> PassAlphabet] : n \in 0..MaxTextLen} \cup {TextA, TextC}

\* Lists of slides with increasing group ids (consecutive, or with gaps as
\* rejected groups leave them), each with its image saved, or all but the last
InitPass ==
    /\ source = "list"
    /\ frame_count = 0
    /\ masks_roi = {}
    /\ fps = 1
    /\ start_seconds = 0
    /\ end_seconds = NoEnd
    /\ frame_rate = 1
    /\ cap_pos = 0
    /\ calls = <<>>
    /\ slides_buffer = <<>>
    /\ pc = "returned"
    /\ \E n \in 0..MaxSlides, step \in {1, 3}, missing \in BOOLEAN :
       \E texts \in [1..n -> PassTexts] :
        /\ result = [i \in 1..n |->
                        Slide((i - 1) * step, PosMsec(i - 1), texts[i], HashStr({}))]
        /\ imwrites = [i \in 1..(IF missing /\ n > 0 THEN n - 1 ELSE n) |->
                          (i - 1) * step]
        /\ images = [g \in {imwrites[i] : i \in 1..Len(imwrites)} |-> DecodedFrame("A")]
    /\ unique_slides = result
    /\ frame_number = 0
    /\ end_frame = 0
    /\ slide_hash_index = <<>>
    /\ last_slide_hash = None
    /\ current_hash = None
    /\ group_started = FALSE
    /\ first_timestamp_of_group = -1
    /\ group_frame_numbers = <<>>
    /\ group_pics = <<>>
    /\ speaker_names = <<>>
    /\ names_text = <<>>
    /\ group_id = 0
    /\ names_file = <<>>
    /\ manifest = <<>>
    /\ is_opened = TRUE
    /\ final_slides = <<>>
    /\ releases = 1
    /\ raised = FALSE
    /\ reads = 0
    /\ read_failed = FALSE
    /\ removed = <<>>
    /\ images_before = <<>>
    /\ closed = <<>>
    /\ video = <<>>
    /\ baseline = <<>>

NextPass ==
    \/ ExactTextPass
    \/ WriteManifest

SpecPass == InitPass /\ [][NextPass]_vars

-----------------------------------------------------------------------------
(* Properties *)

Scanned == pc \in {"returned", "deduplicated", "done"}
PassDone == pc \in {"deduplicated", "done"}

\* The closed groups, and what the claims say of their Candidates
Groups == 1..Len(closed)
CandidateText(i) == ImageToString(closed[i].rep)
CandidateFingerprint(i) == SlideHash(closed[i].rep)
WasAccepted(i) == closed[i].outcome = "accepted"
IsNameList(i) ==
    /\ closed[i].decoded
    /\ Len(CandidateText(i)) >= 10
    /\ Len(CandidateText(i)) <= 300
    /\ AnalyzeTextForNames(CandidateText(i)).is_mostly_names
PassedContentGate(i) ==
    /\ closed[i].decoded
    /\ Len(CandidateText(i)) >= 10
    /\ ~IsNameList(i)
SlideOf(i) == {k \in 1..Len(unique_slides) : unique_slides[k].group_id = closed[i].group_id}
SlideIds(slides) == {slides[k].group_id : k \in 1..Len(slides)}

\* C1: a Candidate that passed the Content Gate is rejected if the fingerprint of
\* its group's representative frame is within T of the representative's
\* fingerprint of an already accepted Slide, and is accepted otherwise.
C1_CrossRunDeduplicator ==
    \A i \in Groups :
        PassedContentGate(i) =>
            (WasAccepted(i) <=>
                \A j \in 1..(i - 1) :
                    WasAccepted(j) =>
                        HashDiff(CandidateFingerprint(i), CandidateFingerprint(j))
                            > similarity_threshold)

\* C2: after the exact-text pass no two distinct surviving Slides have the same
\* normalized ocr_text.
C2_PostPassUniqueness ==
    PassDone =>
        \A i, j \in 1..Len(final_slides) :
            i # j => NormalizedText(final_slides[i].ocr_text)
                        # NormalizedText(final_slides[j].ocr_text)

C2_Witness ==
    /\ PassDone
    /\ Len(final_slides) >= 2
    /\ \E i, j \in 1..Len(result) :
        /\ i < j
        /\ result[i].ocr_text # result[j].ocr_text
        /\ NormalizedText(result[i].ocr_text) = NormalizedText(result[j].ocr_text)

\* C3: every Slide of the scan has at least 10 characters of text, and a group
\* whose representative yields fewer produces no Slide and no image file,
\* whether a boundary closed it or the end of the stream.
C3_MinimumText ==
    /\ \A k \in 1..Len(unique_slides) : Len(unique_slides[k].ocr_text) >= 10
    /\ \A i \in Groups :
        closed[i].decoded /\ Len(CandidateText(i)) < 10 =>
            /\ SlideOf(i) = {}
            /\ closed[i].group_id \notin DOMAIN images
            /\ \A w \in 1..Len(imwrites) : imwrites[w] # closed[i].group_id

C3_Witness ==
    /\ Scanned
    /\ Len(unique_slides) >= 1
    /\ \E i, j \in Groups :
        /\ closed[i].via = "boundary" /\ closed[j].via = "flush"
        /\ closed[i].decoded /\ Len(CandidateText(i)) < 10
        /\ closed[j].decoded /\ Len(CandidateText(j)) < 10

\* C4: group_id strictly increases along the list the scan returns and along
\* the list after the exact-text pass, and no slide_<group_id>.png is written
\* twice.
C4_MonotonicGroupId ==
    /\ \A k \in 1..(Len(unique_slides) - 1) :
        unique_slides[k].group_id < unique_slides[k + 1].group_id
    /\ \A k \in 1..(Len(final_slides) - 1) :
        final_slides[k].group_id < final_slides[k + 1].group_id
    /\ \A v, w \in 1..Len(imwrites) : v # w => imwrites[v] # imwrites[w]

C4_Witness ==
    /\ pc = "done"
    /\ Len(result) >= 3
    /\ Len(final_slides) >= 2
    /\ Len(imwrites) >= 3

\* C5 as stated: a rejected group consumes no group_id, so the Slides of the
\* scan carry the ids 0, 1, ..., n-1 in order.
C5_IdsAreDense ==
    \A k \in 1..Len(unique_slides) : unique_slides[k].group_id = k - 1

\* C5 amended: every group closed by a boundary consumes a group_id, accepted or
\* not; the i-th closed group has id i-1 and a Slide carries the id of its group.
C5_IdsCountClosedGroups ==
    /\ \A i \in Groups : closed[i].group_id = i - 1
    /\ group_id = Cardinality({i \in Groups : closed[i].via = "boundary"})
    /\ \A k \in 1..Len(unique_slides) :
        \E i \in Groups : WasAccepted(i) /\ unique_slides[k].group_id = i - 1

C5_Witness ==
    /\ Scanned
    /\ Len(unique_slides) >= 1
    /\ unique_slides[1].group_id = 1
    /\ ~WasAccepted(1)

\* C6: a Candidate whose text has between 10 and 300 characters and is mostly
\* names is not a Slide and has no image file, wherever its group lies.
C6_NameListDiversion ==
    \A i \in Groups :
        IsNameList(i) =>
            /\ ~WasAccepted(i)
            /\ SlideOf(i) = {}
            /\ closed[i].group_id \notin DOMAIN images_before \cup DOMAIN images

\* The re-display scenario scanned to its end: the video opened, every frame read
RedisplayScanned ==
    /\ source = "redisplay"
    /\ is_opened
    /\ Scanned
    /\ ~read_failed
    /\ \A i \in Groups : closed[i].decoded

\* C7 as stated: the scenario yields exactly one Slide, group_id 0, with the
\* first tick's timestamp, and the second showing is rejected by the Cross-Run
\* Deduplicator.
C7_RedisplayOriginal ==
    RedisplayScanned =>
        /\ Len(result) = 1
        /\ result[1].group_id = 0
        /\ result[1].timestamp = PosMsec(start_seconds * fps)
        /\ \E i \in Groups : closed[i].outcome = "duplicate"

\* C7 amended: the scenario yields exactly one Slide, group_id 0, with the first
\* tick's timestamp; the second showing never becomes a Candidate: no group is
\* opened for it and nothing is compared by the Cross-Run Deduplicator.
C7_RedisplayOneSlide ==
    RedisplayScanned =>
        /\ Len(result) = 1
        /\ result[1].group_id = 0
        /\ result[1].timestamp = PosMsec(start_seconds * fps)
        /\ Len(closed) = 1
        /\ closed[1].via = "boundary"
        /\ closed[1].rep_frame < 10 * fps
        /\ ~group_started

C7_Witness ==
    /\ RedisplayScanned
    /\ frame_number >= 25 * fps
    /\ Len(result) = 1

\* C8: the exact-text pass returns the subsequence of its input made of the
\* Slides that are the first with their normalized text, unaltered.
FirstOccurrences(slides) ==
    {i \in 1..Len(slides) :
        \A j \in 1..(i - 1) :
            NormalizedText(slides[j].ocr_text) # NormalizedText(slides[i].ocr_text)}

C8_KeepsFirstOccurrences ==
    PassDone =>
        LET keep == FirstOccurrences(result)
        IN  /\ Len(final_slides) = Cardinality(keep)
            /\ \A k \in 1..Len(final_slides) :
                \E i \in keep :
                    /\ Cardinality({j \in keep : j < i}) = k - 1
                    /\ final_slides[k] = result[i]

C8_Witness ==
    /\ PassDone
    /\ Len(result) = 3
    /\ FirstOccurrences(result) = {1, 2}
    /\ NormalizedText(result[3].ocr_text) = NormalizedText(result[1].ocr_text)
    /\ final_slides = <<result[1], result[2]>>

\* C9: if every input Slide's image exists before the pass, then after it an
\* image exists exactly for the returned Slides, unchanged, and each removed
\* Slide's image was deleted.
C9_ManifestDiskConsistency ==
    (PassDone /\ SlideIds(result) \subseteq DOMAIN images_before) =>
        /\ \A g \in SlideIds(result) : g \in DOMAIN images <=> g \in SlideIds(final_slides)
        /\ \A g \in SlideIds(final_slides) : images[g] = images_before[g]
        /\ {removed[r] : r \in 1..Len(removed)} = SlideIds(result) \ SlideIds(final_slides)

C9_Witness ==
    /\ PassDone
    /\ SlideIds(result) = {0, 3}
    /\ SlideIds(result) \subseteq DOMAIN images_before
    /\ SlideIds(final_slides) = {0}
    /\ DOMAIN images = {0}
    /\ removed = <<3>>

\* C10: if the video cannot be opened, extract_unique_slides returns an empty
\* list, raises nothing, reads no frame and writes no image and no side file.
C10_UnreadableSource ==
    (~is_opened /\ pc # "start") =>
        /\ result = <<>>
        /\ ~raised
        /\ reads = 0
        /\ images = <<>> /\ imwrites = <<>>
        /\ names_file = <<>>
        /\ closed = <<>>

C10_Witness ==
    /\ ~is_opened
    /\ pc = "returned"
    /\ source = "free"

\* C11: a failed frame read ends the iteration, and the group then open (like the
\* one open at the natural end of the stream) is accepted exactly when a group
\* closed by a boundary with the same representative would be: decoded, at least
\* 10 characters, not mostly names, and its fingerprint more than T from every
\* accepted Slide's.
C11_FlushUsesNormalPath ==
    /\ read_failed => pc # "loop"
    /\ \A i \in Groups :
        closed[i].via = "flush" =>
            (WasAccepted(i) <=>
                GateAtBoundary(closed[i].decoded, CandidateText(i),
                               CandidateFingerprint(i)).add)

\* The groups whose Candidate was rejected as mostly names, and the number of
\* names detected in a Candidate's text
NameRejected == {i \in Groups : closed[i].outcome = "names"}
NameCount(i) == Len(AnalyzeTextForNames(CandidateText(i)).names)

\* C12: at every point of the scan the name block is the text of the first
\* Candidate, among those rejected as mostly names so far, with the greatest
\* number of detected names (a later one replaces it only with strictly more
\* names, a tie keeps the earlier); it is empty while none was rejected.
C12_NameBlockRetention ==
    IF NameRejected = {}
    THEN speaker_names = <<>> /\ names_text = <<>>
    ELSE \E i \in NameRejected :
            /\ \A j \in NameRejected : NameCount(j) <= NameCount(i)
            /\ \A j \in NameRejected : j < i => NameCount(j) < NameCount(i)
            /\ names_text = CandidateText(i)
            /\ speaker_names = AnalyzeTextForNames(CandidateText(i)).names

C12_Witness ==
    \E i, j \in NameRejected :
        /\ i < j
        /\ NameCount(i) = NameCount(j)
        /\ CandidateText(i) # CandidateText(j)
        /\ names_text = CandidateText(i)

\* C13: speaker_names.txt exists only once the scan has ended and only if some
\* Candidate of the scan was rejected as mostly names, and then it holds the
\* retained name block; a scan that rejected none as mostly names writes no
\* such file.
C13_SideFilePresence ==
    /\ names_file # <<>> =>
            /\ Scanned
            /\ NameRejected # {}
            /\ names_file = <<names_text>>
            /\ \E i \in NameRejected : names_text = CandidateText(i)
    /\ NameRejected = {} => names_file = <<>>

C13_Witness ==
    /\ pc = "done"
    /\ NameRejected # {}
    /\ names_file = <<TextN>>
    /\ \E i \in Groups : closed[i].via = "flush"

\* C14: the imagehash recorded for a Slide, and the hash kept for it in the
\* index of accepted slides, is the fingerprint of the Slide's representative
\* frame (the frame whose image is saved and whose text is stored), whether a
\* boundary closed its group or the end of the stream.
C14_RecordedFingerprint ==
    \A i \in Groups :
        /\ \A k \in SlideOf(i) :
                /\ unique_slides[k].imagehash = CandidateFingerprint(i)
                /\ Scanned => result[k].imagehash = HashStr(CandidateFingerprint(i))
        /\ \A e \in 1..Len(slide_hash_index) :
                slide_hash_index[e].group_id = closed[i].group_id =>
                    slide_hash_index[e].hash = CandidateFingerprint(i)

\* C15: the timestamp of a Slide is the time of the first member frame of its own
\* group (not of the representative, not of the boundary frame), and while a
\* group is open first_timestamp_of_group stays the time of its first member.
C15_SlideTimestamp ==
    /\ \A i \in Groups : \A k \in SlideOf(i) :
            unique_slides[k].timestamp = PosMsec(closed[i].members[1])
    /\ (group_started /\ group_frame_numbers # <<>>) =>
            first_timestamp_of_group = PosMsec(group_frame_numbers[1])

C15_Witness ==
    \E i \in Groups : \E k \in SlideOf(i) :
        /\ closed[i].via = "boundary"
        /\ Len(closed[i].members) >= 3
        /\ closed[i].members[1] > 0
        /\ closed[i].rep_frame # closed[i].members[1]
        /\ unique_slides[k].timestamp = PosMsec(closed[i].members[1])
        /\ unique_slides[k].timestamp # PosMsec(closed[i].rep_frame)
        /\ unique_slides[k].timestamp # PosMsec(closed[i].closed_at)

Range(seq) == {seq[k] : k \in 1..Len(seq)}

\* C16: a closed group yields at most one Slide and at most one image file, every
\* Slide comes from a closed group, a boundary closure leaves the member list
\* empty, and no frame is a member of two groups (closed or still open).
C16_OneSlidePerRun ==
    /\ \A i \in Groups :
            /\ Cardinality(SlideOf(i)) <= 1
            /\ Cardinality({w \in 1..Len(imwrites) : imwrites[w] = closed[i].group_id}) <= 1
            /\ ~WasAccepted(i) => SlideOf(i) = {}
    /\ source # "list" =>
            \A k \in 1..Len(unique_slides) : \E i \in Groups : k \in SlideOf(i)
    /\ \A i, j \in Groups :
            i # j => Range(closed[i].members) \cap Range(closed[j].members) = {}
    /\ ~group_started => group_frame_numbers = <<>>
    /\ pc \in {"loop", "flush"} =>
            \A i \in Groups : Range(group_frame_numbers) \cap Range(closed[i].members) = {}

C16_Witness ==
    /\ Scanned
    /\ Len(unique_slides) = 2
    /\ \E i, j \in Groups :
        /\ closed[i].via = "boundary" /\ closed[j].via = "flush"
        /\ Len(closed[i].members) >= 2 /\ Len(closed[j].members) >= 2
        /\ WasAccepted(i) /\ WasAccepted(j)

\* C17: the scan keeps no decoded frame for the members of the open group: at
\* most the frame of the tick being processed is held, whatever the length of
\* the group.
C17_BoundedMemory ==
    Len(slides_buffer) <= 1

\* C18: the frame given to text extraction and the image saved for a Slide is the
\* representative frame as decoded, with no region painted over, whether mask
\* regions are configured or not; the masks are painted only on the copy that
\* is hashed.
C18_UnmaskedPersistence ==
    /\ \A g \in DOMAIN images : images[g].painted = {}
    /\ \A i \in Groups :
            /\ closed[i].ocr_input = DecodedFrame(closed[i].rep)
            /\ (WasAccepted(i) /\ closed[i].group_id \in DOMAIN images) =>
                    images[closed[i].group_id] = DecodedFrame(closed[i].rep)

C18_Witness ==
    /\ masks_roi = MaskRegions
    /\ \E i \in Groups :
        /\ WasAccepted(i)
        /\ closed[i].rep = "A2"
        /\ images[closed[i].group_id] = DecodedFrame("A2")
        /\ PhashOfFrame(images[closed[i].group_id]) # SlideHash("A2")

\* The frames that are members of some group, closed or open
MemberFrames ==
    UNION {Range(closed[i].members) : i \in Groups} \cup Range(group_frame_numbers)
ClosedByBoundary == {i \in Groups : closed[i].via = "boundary"}

\* C19 as stated: a boundary met while a group is open closes it and opens a new
\* group at that same frame, so once the first frame has been processed a group
\* is always open and every boundary frame is a member of a group.
C19_BoundaryReopens ==
    /\ (pc = "loop" /\ reads > 0) => (group_started /\ group_frame_numbers # <<>>)
    /\ \A i \in ClosedByBoundary : closed[i].closed_at \in MemberFrames

\* C19 amended: a boundary met while a group is open closes it and opens none:
\* no group is open after it, the boundary frame is a member of no group, and
\* the first member of any later group lies at least 3 seconds after it.
C19_BoundaryLeavesNoRun ==
    /\ group_started <=> group_frame_numbers # <<>>
    /\ \A i \in ClosedByBoundary :
            /\ closed[i].closed_at \notin MemberFrames
            /\ \A j \in Groups :
                    i < j => closed[j].members[1] >= closed[i].closed_at + fps * DeadTimeSeconds
            /\ (pc \in {"loop", "flush"} /\ group_started) =>
                    group_frame_numbers[1] >= closed[i].closed_at + fps * DeadTimeSeconds
    /\ (pc = "loop" /\ closed # <<>>
            /\ frame_number = closed[Len(closed)].closed_at + fps * DeadTimeSeconds) =>
            ~group_started

C19_Witness ==
    /\ pc = "loop"
    /\ closed # <<>>
    /\ ~group_started
    /\ frame_number > closed[Len(closed)].closed_at + fps * DeadTimeSeconds
    /\ source = "free"

\* The frame sampled last closed a group (the scan stands 3 seconds after it)
LastTickClosedGroup ==
    /\ closed # <<>>
    /\ closed[Len(closed)].via = "boundary"
    /\ frame_number = closed[Len(closed)].closed_at + fps * DeadTimeSeconds

\* C20 as stated: whenever a further frame is about to be sampled, the
\* fingerprint it will be compared with is that of the frame sampled last,
\* also when that frame closed a group.
C20_PreviousTickComparison ==
    (pc = "loop" /\ reads > 0) => last_slide_hash = current_hash

\* C20 amended: the fingerprint a frame is compared with is that of the frame
\* sampled last, except after a boundary frame that closed a group: then it is
\* still the fingerprint of the closed group's last member, more than T from
\* the boundary frame's.
C20_ComparisonSkipsBoundaryTick ==
    (pc = "loop" /\ reads > 0) =>
        IF LastTickClosedGroup
        THEN /\ last_slide_hash = SlideHash(closed[Len(closed)].last_member)
             /\ HashDiff(current_hash, last_slide_hash) > similarity_threshold
        ELSE last_slide_hash = current_hash

C20_Witness ==
    /\ pc = "loop"
    /\ source = "free"
    /\ closed # <<>>
    /\ group_started
    /\ group_frame_numbers[1] = closed[Len(closed)].closed_at + fps * DeadTimeSeconds
    /\ HashDiff(SlideHash(group_pics[1]), closed[Len(closed)].compared_hash)
            <= similarity_threshold

-----------------------------------------------------------------------------
\* C21 (Run contiguity): every member of the open group but the first is within
\* the threshold of the member sampled just before it, and the members are
\* consecutive sampled ticks: the ticks read last
C21_RunContiguity ==
    (pc = "loop" /\ group_started) =>
        LET ticks == Ticks
        IN  /\ \A k \in 2..Len(group_frame_numbers) :
                  HashDiff(SlideHash(group_pics[k]), SlideHash(group_pics[k - 1]))
                      <= similarity_threshold
            /\ Len(group_frame_numbers) <= Len(ticks)
            /\ \A k \in 1..Len(group_frame_numbers) :
                  group_frame_numbers[k] =
                      ticks[Len(ticks) - Len(group_frame_numbers) + k]

\* A group of three members whose third is not within the threshold of its first
C21_Witness ==
    /\ pc = "loop" /\ group_started
    /\ Len(group_frame_numbers) >= 3
    /\ HashDiff(SlideHash(group_pics[3]), SlideHash(group_pics[1])) > similarity_threshold

-----------------------------------------------------------------------------
\* The groups closed at a boundary frame
ClosedAtBoundary == {i \in Groups : closed[i].via = "boundary"}

\* C22 (Dead-time skip), as stated: the 3 seconds are skipped when the group
\* closed at boundary frame f gave a slide, and only then: after a rejected group
\* the next tick is one sampling period later
C22_SkipTiedToAcceptance ==
    LET ticks == Ticks
    IN  \A i \in ClosedAtBoundary, k \in 1..(Len(ticks) - 1) :
            ticks[k] = closed[i].closed_at =>
                ticks[k + 1] =
                    IF WasAccepted(i)
                    THEN closed[i].closed_at + DeadTimeSeconds * fps
                    ELSE closed[i].closed_at + fps * frame_rate

\* C22 (Dead-time skip), amended: after every group closed at a boundary frame f,
\* accepted or rejected, the next tick read is f + 3 * fps
C22_SkipAfterEveryBoundary ==
    LET ticks == Ticks
    IN  \A i \in ClosedAtBoundary, k \in 1..(Len(ticks) - 1) :
            ticks[k] = closed[i].closed_at =>
                ticks[k + 1] = closed[i].closed_at + DeadTimeSeconds * fps

\* A tick was read after a group was closed at a boundary and rejected
C22_Witness ==
    \E i \in ClosedAtBoundary :
        /\ ~WasAccepted(i)
        /\ Ticks[Len(Ticks)] > closed[i].closed_at

-----------------------------------------------------------------------------
\* The calls of one kind, as the frames they were made on, in order
IsReread(c) == c.op = "reread"
IsOcr(c) == c.op = "ocr"
IsNames(c) == c.op = "names"
FramesOf(log) == [k \in 1..Len(log) |-> log[k].frame]
Rereads == FramesOf(SelectSeq(calls, IsReread))
OcrFrames == FramesOf(SelectSeq(calls, IsOcr))
NamesFrames == FramesOf(SelectSeq(calls, IsNames))
NamesCalledFor(i) == \E c \in 1..Len(calls) : calls[c] = Call("names", closed[i].rep_frame)

\* C23 (Gate ordering): the minimum-text and name-density checks come before the
\* comparison with the accepted slides, which sees only Candidates that passed
\* them; so every Candidate of 10 to 300 characters that is mostly names is
\* analysed and rejected as a name list, also when it is within T of a Slide
C23_GateOrdering ==
    \A i \in Groups :
        /\ IsNameList(i) => (closed[i].outcome = "names" /\ NamesCalledFor(i))
        /\ closed[i].outcome = "duplicate" => PassedContentGate(i)

\* C24 (Representative): the representative of a closed group of members
\* m[0..n-1] is m[n div 2], a member of the group, and it is the only frame read
\* again when the group is closed
C24_Representative ==
    LET rereads == Rereads
    IN  /\ Len(rereads) = Len(closed) + (IF pc = "raised" THEN 1 ELSE 0)
        /\ \A i \in Groups :
            /\ closed[i].rep_frame =
                   closed[i].members[(Len(closed[i].members) \div 2) + 1]
            /\ \E k \in 1..Len(closed[i].members) :
                   closed[i].members[k] = closed[i].rep_frame
            /\ rereads[i] = closed[i].rep_frame

\* Groups of two and of three members were closed, one of them by the end of the
\* stream
C24_Witness ==
    /\ Scanned
    /\ \E i, j \in Groups :
        /\ Len(closed[i].members) = 2
        /\ Len(closed[j].members) = 3
        /\ closed[i].via # closed[j].via

\* The representatives of the groups closed so far; a group whose closing raised
\* is not in the log, its members are still those of the open group
ClosedReps ==
    {closed[i].rep_frame : i \in Groups}
      \cup (IF pc = "raised"
            THEN {group_frame_numbers[(Len(group_frame_numbers) \div 2) + 1]}
            ELSE {})

\* C25 (One extraction per group): text extraction and the name classifier are
\* each called at most once per closed group, on its representative, and there
\* are never more text extractions than closed groups (flush included)
C25_OneExtractionPerRun ==
    LET ocr == OcrFrames
        names == NamesFrames
        reps == ClosedReps
    IN  /\ Len(ocr) <= Len(closed) + (IF pc = "raised" THEN 1 ELSE 0)
        /\ \A v, w \in 1..Len(ocr) : v # w => ocr[v] # ocr[w]
        /\ \A v, w \in 1..Len(names) : v # w => names[v] # names[w]
        /\ \A v \in 1..Len(ocr) : ocr[v] \in reps
        /\ \A v \in 1..Len(names) : names[v] \in reps

\* Three groups were closed, one of several members, one by the end of the
\* stream, and the names were looked for
C25_Witness ==
    /\ Scanned
    /\ Len(closed) >= 3
    /\ Len(OcrFrames) >= 3
    /\ Len(NamesFrames) >= 1
    /\ \E i \in Groups : Len(closed[i].members) >= 2 /\ closed[i].decoded
    /\ closed[Len(closed)].via = "flush"

\* C26 (Name-check ceiling): the name classifier is run for every Candidate of
\* 10 to 300 characters and for no other; a Candidate of more than 300
\* characters is never rejected as mostly names
C26_NameCheckCeiling ==
    \A i \in Groups :
        closed[i].decoded =>
            /\ NamesCalledFor(i) <=>
                  (Len(CandidateText(i)) >= MIN_OCR_TEXT_LENGTH
                     /\ Len(CandidateText(i)) <= MAX_OCR_TEXT_FOR_NAME_CHECK)
            /\ Len(CandidateText(i)) > MAX_OCR_TEXT_FOR_NAME_CHECK =>
                  closed[i].outcome # "names"

-----------------------------------------------------------------------------
start_frame == start_seconds * fps
frame_interval == fps * frame_rate

OnGrid(f) == f >= start_frame /\ (f - start_frame) % frame_interval = 0

ClosedBefore(f) == Cardinality({i \in ClosedAtBoundary : closed[i].closed_at < f})

C28_EndBound ==
    LET ticks == Ticks
    IN  /\ end_seconds # NoEnd => \A k \in 1..Len(ticks) : ticks[k] < end_seconds * fps
        /\ \A k \in 1..Len(ticks) : ticks[k] < frame_count

\* C29 (Single forward pass): the ticks are read in strictly increasing order
\* of frame index, and after the middle frame of a closed group was read again
\* the position is back at the next tick before that tick is read
C29_SingleForwardPass ==
    LET ticks == Ticks
    IN  /\ \A k \in 1..(Len(ticks) - 1) : ticks[k] < ticks[k + 1]
        /\ pc = "loop" => cap_pos = frame_number
        /\ (pc = "loop" /\ ticks # <<>>) => cap_pos > ticks[Len(ticks)]

\* A tick was read after a middle frame before it was read again
C29_Witness ==
    \E c, d \in 1..Len(calls) :
        /\ c < d
        /\ calls[c].op = "reread"
        /\ calls[d].op = "read"
        /\ calls[c].frame < calls[d].frame
        /\ \E b \in 1..(c - 1) : calls[b].op = "read" /\ calls[c].frame < calls[b].frame

\* C30 (Collaborator failure): when text extraction or the name classifier
\* raises while a group is closed or flushed, the scan is over: no list is
\* returned, speaker_names.txt and slides.json are not written, the exact-text
\* pass does not run
C30_FailurePropagates ==
    raised =>
        /\ pc = "raised"
        /\ result = <<>>
        /\ final_slides = <<>>
        /\ names_file = <<>>
        /\ manifest = <<>>

\* The name classifier raised after a slide was accepted and names were retained
C30_Witness ==
    /\ raised
    /\ unique_slides # <<>>
    /\ speaker_names # <<>>
    /\ calls[Len(calls)].op = "names"

-----------------------------------------------------------------------------
\* C33 (Exact-text pass idempotence): deduplicate_slides_by_ocr applied to its
\* own output returns that output unchanged and deletes no further image file
C33_PassIdempotence ==
    PassDone =>
        LET again == DeduplicateSlidesByOcr(final_slides, images)
        IN  /\ again.slides = final_slides
            /\ again.deleted = <<>>
            /\ again.files = images

\* The pass removed a slide and kept two
C33_Witness ==
    /\ PassDone
    /\ removed # <<>>
    /\ Len(final_slides) >= 2

\* C34 (Video handle release): once the video was opened, cap.release() is called
\* exactly once on every way out of extract_unique_slides: normal return, return
\* after a failed read, exception of a collaborator
C34_HandleRelease ==
    /\ releases <= 1
    /\ (is_opened /\ (Scanned \/ pc = "raised")) => releases = 1

\* C35 (Hash index invariant): inside the loop slide_hash_index holds one entry
\* per accepted slide, with that slide's group_id and recorded hash, and any two
\* hashes of the index are more than the threshold apart
C35_HashIndexInvariant ==
    pc = "loop" =>
        /\ Len(slide_hash_index) = Len(unique_slides)
        /\ \A k \in 1..Len(slide_hash_index) :
              /\ slide_hash_index[k].group_id = unique_slides[k].group_id
              /\ slide_hash_index[k].hash = unique_slides[k].imagehash
              /\ slide_hash_index[k].key = HashStr(unique_slides[k].imagehash)
        /\ \A j, k \in 1..Len(slide_hash_index) :
              j # k => HashDiff(slide_hash_index[j].hash, slide_hash_index[k].hash)
                          > similarity_threshold

\* Two slides are in the index and a Candidate was rejected as a duplicate
C35_Witness ==
    /\ pc = "loop"
    /\ Len(slide_hash_index) >= 2
    /\ \E i \in Groups : closed[i].outcome = "duplicate"

-----------------------------------------------------------------------------
(* Termination *)

\* The script is one sequential process: as long as it has not come to its end
\* (main() done, or an exception escaped) it executes its next statement, and
\* every statement moves pc or counts a read. In each of these positions a
\* statement can be executed: the video opens or does not, a read fails or the
\* loop ends, the flush, the exact-text pass and the manifest need nothing.
progress == <<pc, reads>>
Running ==
    /\ pc \notin {"done", "raised"}
    /\ pc' \in {"loop", "flush", "returned", "raised", "deduplicated", "done"}
    /\ reads' \in {reads, reads + 1, reads + 2}

\* The scans of the schedule and animation families, run to their end
InitLive == Init /\ source \in {"schedule", "animation"}
SpecLive == InitLive /\ [][Next]_vars /\ WF_progress(Running)

\* lines 142-145, 225-226, 240: an iteration that stays in the loop has advanced
\* frame_number by frame_interval or by 3 * fps; one that leaves it has met the
\* loop boundary, a failed read, or an exception of a collaborator
LoopIteration ==
    /\ (pc = "loop" /\ pc' = "loop") =>
           frame_number' \in {frame_number + frame_interval,
                              frame_number + DeadTimeSeconds * fps}
    /\ (pc = "loop" /\ pc' # "loop") =>
           \/ frame_number >= end_frame /\ frame_number' = frame_number
           \/ read_failed'
           \/ raised'

FlushClosures == {i \in 1..Len(closed) : closed[i].via = "flush"}

\* C31 (Termination): with fps > 0, frame_rate >= 1 and a finite end frame, every
\* loop iteration stops the loop or advances frame_number by frame_interval or by
\* 3 * fps; the ticks read are fewer than the frames between the start and the
\* end frame; the scan leaves the loop and extract_unique_slides is left (by its
\* return, or by the exception of a collaborator); the group open at the end is
\* flushed once, and a scan no read and no collaborator stopped ends with
\* frame_number >= end_frame
C31_Termination ==
    /\ [][LoopIteration]_progress
    /\ <>(Scanned \/ pc = "raised")
    /\ [](/\ fps > 0 /\ frame_rate >= 1
          /\ Cardinality(FlushClosures) <= 1
          /\ (is_opened /\ ~raised) =>
                 Len(SelectSeq(calls, IsRead)) <= frame_number - start_frame
          /\ (Scanned /\ is_opened) =>
                 /\ (group_started /\ group_frame_numbers # <<>>)
                        <=> Cardinality(FlushClosures) = 1
                 /\ (~read_failed /\ ~raised) => frame_number >= end_frame)

\* A scan sampled every 2 seconds ran into the end frame after a skip of 3 seconds
\* and several ticks, flushed the group open there, and returned

C31_Witness ==
    /\ pc = "returned" /\ is_opened /\ ~read_failed /\ ~raised
    /\ frame_rate = 2
    /\ frame_number >= end_frame
    /\ Len(SelectSeq(calls, IsRead)) >= 3
    /\ \E i \in 1..Len(closed) : closed[i].via = "boundary"
    /\ Cardinality(FlushClosures) = 1

-----------------------------------------------------------------------------
\* C32 (Variant equivalence): on the same video, with the same parameters and
\* mask regions, collaborators that are functions of the frame and re-reads that
\* return the frame read before, 02-extract-slides.py returns the list of slides
\* scripts/extract-slides.py returns (group_id, timestamp, ocr_text and imagehash
\* of every slide) and retains the same name block
C32_VariantEquivalence ==
    (baseline # <<>> /\ pc = "returned") =>
        /\ Len(result) = Len(baseline[1].result)
        /\ \A k \in 1..Len(result) :
              /\ result[k].group_id = baseline[1].result[k].group_id
              /\ result[k].timestamp = baseline[1].result[k].timestamp
              /\ result[k].ocr_text = baseline[1].result[k].ocr_text
              /\ result[k].imagehash = baseline[1].result[k].imagehash
        /\ names_text = baseline[1].names_text
        /\ speaker_names = baseline[1].speaker_names
        /\ names_file = baseline[1].names_file

\* Both variants have scanned a video and returned two slides or more, a group
\* rejected between them, and a name block retained
C32_Witness ==
    /\ baseline # <<>> /\ pc = "returned"
    /\ Len(result) >= 2
    /\ \E k \in 1..(Len(result) - 1) : result[k + 1].group_id > result[k].group_id + 1
    /\ names_text # <<>>
====
